---- MODULE Spec2Model ----
(***************************************************************************)
(* Model of the canvas command surface (src/src/cli/canvas-cli.ts):        *)
(* the A2UI JSONL validator, the node directory adapter, the node          *)
(* resolver and the command handlers that compose them around the          *)
(* gateway.                                                                *)
(*                                                                         *)
(* Strings are sequences of UTF-16 code units, each written as a           *)
(* one-character string.  A JSONL text is a sequence of items: the         *)
(* whitespace code units, and "atoms", each standing for one complete      *)
(* piece of JSON-like text without whitespace around it (see Atoms).       *)
(* An optional field of a JavaScript object that is absent is a field      *)
(* that is not in the DOMAIN of the record.                                *)
(***************************************************************************)
EXTENDS Naturals, Sequences, FiniteSets, TLC

VARIABLES
    pc,          \* position of the running command handler
    command,     \* the canvas subcommand that was invoked
    opts,        \* the parsed command line options (CanvasOpts)
    jsonl,       \* a2ui push: the payload text built or read
    validation,  \* a2ui push: what validateA2UIJsonl returned or threw
    nodes,       \* the directory snapshot loadNodes returned
    nodeId,      \* the node id resolveNodeId returned
    calls,       \* the gateway calls issued so far, in order
    inflight,    \* indices of calls awaiting the gateway's answer
    results,     \* what the gateway answered to the calls settled so far
    outcome      \* running, ok, or the error the handler's catch reported

vars == <<pc, command, opts, jsonl, validation, nodes, nodeId, calls,
          inflight, results, outcome>>

-----------------------------------------------------------------------------
(* Bounds of the model.                                                    *)

MaxLines == 5
MaxNodes == 3

-----------------------------------------------------------------------------
(* Sequence helpers.                                                       *)

\* String.prototype.startsWith
StartsWith(s, p) == Len(p) <= Len(s) /\ SubSeq(s, 1, Len(p)) = p

-----------------------------------------------------------------------------
(* The A2UI JSONL validator.                                               *)

LF == "\n"
CR == "\r"
SP == " "

\* what String.prototype.trim strips (of the code units the model uses)
WhitespaceChars == {SP, CR, LF, "\t"}

A2UI_ACTION_KEYS ==
    <<"beginRendering", "surfaceUpdate", "dataModelUpdate", "deleteSurface",
      "createSurface">>

\* a parsed JSON value, as the validator sees it: its JSON type, whether
\* JavaScript takes it as true, what typeof and Array.isArray say of it,
\* and the keys of an object
JsonObject(keys) ==
    [type |-> "object", truthy |-> TRUE, typeof |-> "object",
     isArray |-> FALSE, keys |-> keys]

\* The value JSON.parse gives for each atom that is valid JSON.  An atom
\* outside the domain is not JSON ("{oops").
AtomValue ==
    [a \in {"null", "7", "[1]", "{}", "{x}", "{bR}", "{sU}", "{sU,x}", "{dMU}",
            "{dS}", "{cS}", "{bR,sU}", "{bR,cS}"} |->
       CASE a = "null"    -> [type |-> "null", truthy |-> FALSE,
                              typeof |-> "object", isArray |-> FALSE]
         [] a = "7"       -> [type |-> "number", truthy |-> TRUE,
                              typeof |-> "number", isArray |-> FALSE]
         [] a = "[1]"     -> [type |-> "array", truthy |-> TRUE,
                              typeof |-> "object", isArray |-> TRUE]
         [] a = "{}"      -> JsonObject({})
         [] a = "{x}"     -> JsonObject({"x"})
         [] a = "{bR}"    -> JsonObject({"beginRendering"})
         [] a = "{sU}"    -> JsonObject({"surfaceUpdate"})
         [] a = "{sU,x}"  -> JsonObject({"surfaceUpdate", "x"})
         [] a = "{dMU}"   -> JsonObject({"dataModelUpdate"})
         [] a = "{dS}"    -> JsonObject({"deleteSurface"})
         [] a = "{cS}"    -> JsonObject({"createSurface"})
         [] a = "{bR,sU}" -> JsonObject({"beginRendering", "surfaceUpdate"})
         [] a = "{bR,cS}" -> JsonObject({"beginRendering", "createSurface"})]

Atoms == DOMAIN AtomValue \cup {"{oops"}

RECURSIVE SplitFrom(_, _)
\* jsonl.split(/\r?\n/): cur is the line read so far.  A line feed ends
\* the line, taking one carriage return right before it along.
SplitFrom(text, cur) ==
    IF text = <<>> THEN <<cur>>
    ELSE IF Head(text) = LF
         THEN <<(IF cur # <<>> /\ cur[Len(cur)] = CR
                 THEN SubSeq(cur, 1, Len(cur) - 1) ELSE cur)>>
              \o SplitFrom(Tail(text), <<>>)
         ELSE SplitFrom(Tail(text), Append(cur, Head(text)))

SplitLines(text) == SplitFrom(text, <<>>)

RECURSIVE TrimStart(_)
TrimStart(s) ==
    IF s # <<>> /\ Head(s) \in WhitespaceChars THEN TrimStart(Tail(s)) ELSE s

RECURSIVE TrimEnd(_)
TrimEnd(s) ==
    IF s # <<>> /\ s[Len(s)] \in WhitespaceChars
    THEN TrimEnd(SubSeq(s, 1, Len(s) - 1)) ELSE s

\* String.prototype.trim
Trim(s) == TrimEnd(TrimStart(s))

\* JSON.parse of a trimmed line: a single atom that is JSON parses to its
\* value; anything else (text that is not JSON, two values on a line) throws.
JsonParse(trimmed) ==
    IF Len(trimmed) = 1 /\ trimmed[1] \in DOMAIN AtomValue
    THEN [ok |-> TRUE, value |-> AtomValue[trimmed[1]]]
    ELSE [ok |-> FALSE]

\* !obj || typeof obj !== "object" || Array.isArray(obj), negated
IsPlainObject(v) == ~(~v.truthy \/ v.typeof # "object" \/ v.isArray)

\* A2UI_ACTION_KEYS.filter((key) => key in record)
ActionKeysOf(v) == SelectSeq(A2UI_ACTION_KEYS, LAMBDA k : k \in v.keys)

\* The callback of lines.forEach, on the line at 0-based index idx; st holds
\* the closure's variables errors, sawV08, sawV09 and messageCount.
ValidateLine(st, line, idx) ==
    LET trimmed == Trim(line)
        counted == [st EXCEPT !.messageCount = @ + 1]
        parsed  == JsonParse(trimmed)
    IN  IF trimmed = <<>> THEN st
        ELSE IF ~parsed.ok
        THEN [counted EXCEPT !.errors =
                 Append(@, [line |-> idx + 1, msg |-> "SyntaxError"])]
        ELSE IF ~IsPlainObject(parsed.value)
        THEN [counted EXCEPT !.errors =
                 Append(@, [line |-> idx + 1, msg |-> "expected JSON object"])]
        ELSE IF Len(ActionKeysOf(parsed.value)) # 1
        THEN [counted EXCEPT !.errors =
                 Append(@, [line |-> idx + 1,
                            msg |-> "expected exactly one action key"])]
        ELSE IF ActionKeysOf(parsed.value)[1] = "createSurface"
        THEN [counted EXCEPT !.sawV09 = TRUE]
        ELSE [counted EXCEPT !.sawV08 = TRUE]

RECURSIVE ForEachLineFailFast(_, _, _)
\* ForEachLine stopping at the first violation
ForEachLineFailFast(st, lines, idx) ==
    IF idx >= Len(lines) \/ st.errors # <<>> THEN st
    ELSE ForEachLineFailFast(ValidateLine(st, lines[idx + 1], idx), lines,
                             idx + 1)

RECURSIVE ForEachLine(_, _, _)
\* lines.forEach from index idx on
ForEachLine(st, lines, idx) ==
    IF idx >= Len(lines) THEN st
    ELSE ForEachLine(ValidateLine(st, lines[idx + 1], idx), lines, idx + 1)

\* StreamErrors without the check for an empty stream
StreamErrorsNoEmpty(st) ==
    IF st.sawV08 /\ st.sawV09
    THEN <<[msg |-> "mixed A2UI v0.8 and v0.9 messages in one file"]>>
    ELSE <<>>

\* StreamErrors without the check for mixed versions
StreamErrorsNoMixed(st) ==
    IF st.messageCount = 0
    THEN <<[msg |-> "no JSONL messages found"]>> ELSE <<>>

\* The checks after the loop: the stream-level violations.
StreamErrors(st) ==
    (IF st.messageCount = 0
     THEN <<[msg |-> "no JSONL messages found"]>> ELSE <<>>)
    \o (IF st.sawV08 /\ st.sawV09
        THEN <<[msg |-> "mixed A2UI v0.8 and v0.9 messages in one file"]>>
        ELSE <<>>)

\* validateA2UIJsonl: returns {version, messageCount}, or throws the Error
\* whose message lists every violation (ok = FALSE, errors).
validateA2UIJsonl(text) ==
    LET st == ForEachLine([errors |-> <<>>, sawV08 |-> FALSE, sawV09 |-> FALSE,
                           messageCount |-> 0], SplitLines(text), 0)
        errors == st.errors \o StreamErrors(st)
    IN  IF Len(errors) > 0
        THEN [ok |-> FALSE, kind |-> "Invalid A2UI JSONL", errors |-> errors]
        ELSE [ok |-> TRUE,
              version |-> IF st.sawV09 THEN "v0.9" ELSE "v0.8",
              messageCount |-> st.messageCount]

-----------------------------------------------------------------------------
(* The node resolver.                                                      *)

UpperCase ==
    <<"A", "B", "C", "D", "E", "F", "G", "H", "I", "J", "K", "L", "M",
      "N", "O", "P", "Q", "R", "S", "T", "U", "V", "W", "X", "Y", "Z">>

LowerCase ==
    <<"a", "b", "c", "d", "e", "f", "g", "h", "i", "j", "k", "l", "m",
      "n", "o", "p", "q", "r", "s", "t", "u", "v", "w", "x", "y", "z">>

Digits == {"0", "1", "2", "3", "4", "5", "6", "7", "8", "9"}

\* the character class [a-z0-9]
IsAlnum(c) == c \in Digits \/ \E i \in DOMAIN LowerCase : LowerCase[i] = c

\* String.prototype.toLowerCase, one code unit
ToLowerChar(c) ==
    IF \E i \in DOMAIN UpperCase : UpperCase[i] = c
    THEN LowerCase[CHOOSE i \in DOMAIN UpperCase : UpperCase[i] = c]
    ELSE c

ToLowerCase(s) == [i \in 1..Len(s) |-> ToLowerChar(s[i])]

RECURSIVE SkipNonAlnum(_)
SkipNonAlnum(s) ==
    IF s # <<>> /\ ~IsAlnum(Head(s)) THEN SkipNonAlnum(Tail(s)) ELSE s

RECURSIVE ReplaceNonAlnumRuns(_)
\* .replace(/[^a-z0-9]+/g, "-")
ReplaceNonAlnumRuns(s) ==
    IF s = <<>> THEN <<>>
    ELSE IF IsAlnum(Head(s))
         THEN <<Head(s)>> \o ReplaceNonAlnumRuns(Tail(s))
         ELSE <<"-">> \o ReplaceNonAlnumRuns(SkipNonAlnum(Tail(s)))

RECURSIVE StripLeadingDashes(_)
\* .replace(/^-+/, "")
StripLeadingDashes(s) ==
    IF s # <<>> /\ Head(s) = "-" THEN StripLeadingDashes(Tail(s)) ELSE s

RECURSIVE StripTrailingDashes(_)
\* .replace(/-+$/, "")
StripTrailingDashes(s) ==
    IF s # <<>> /\ s[Len(s)] = "-"
    THEN StripTrailingDashes(SubSeq(s, 1, Len(s) - 1)) ELSE s

normalizeNodeKey(value) ==
    StripTrailingDashes(StripLeadingDashes(
        ReplaceNonAlnumRuns(ToLowerCase(value))))

\* a field read as a string: "" (falsy) when the field is absent
Field(n, f) == IF f \in DOMAIN n THEN n[f] ELSE <<>>

\* n.displayName || n.remoteIp || n.nodeId
NodeLabel(n) ==
    IF Field(n, "displayName") # <<>> THEN n.displayName
    ELSE IF Field(n, "remoteIp") # <<>> THEN n.remoteIp
    ELSE n.nodeId

\* nodes.map((n) => n.displayName || n.remoteIp || n.nodeId)
NodeLabels(ns) == [i \in 1..Len(ns) |-> NodeLabel(ns[i])]

RECURSIVE JoinStrings(_, _)
\* Array.prototype.join
JoinStrings(ss, sep) ==
    IF ss = <<>> THEN <<>>
    ELSE IF Len(ss) = 1 THEN ss[1]
    ELSE ss[1] \o sep \o JoinStrings(Tail(ss), sep)

CommaSpace == <<",", " ">>

\* the shortest query for which id-prefix matching is on
PrefixMinLen == 6

\* MatchesQuery without the remote address rule
MatchesQueryNoIp(n, q) ==
    LET name == Field(n, "displayName")
    IN  \/ n.nodeId = q
        \/ name # <<>> /\ normalizeNodeKey(name) = normalizeNodeKey(q)
        \/ Len(q) >= PrefixMinLen /\ StartsWith(n.nodeId, q)

\* MatchesQuery with id-prefix matching for a query of any length
MatchesQueryAnyPrefix(n, q) ==
    LET name == Field(n, "displayName")
    IN  \/ n.nodeId = q
        \/ "remoteIp" \in DOMAIN n /\ n.remoteIp = q
        \/ name # <<>> /\ normalizeNodeKey(name) = normalizeNodeKey(q)
        \/ StartsWith(n.nodeId, q)

\* the predicate of nodes.filter in resolveNodeId
MatchesQuery(n, q) ==
    LET name == Field(n, "displayName")
    IN  \/ n.nodeId = q
        \/ "remoteIp" \in DOMAIN n /\ n.remoteIp = q
        \/ name # <<>> /\ normalizeNodeKey(name) = normalizeNodeKey(q)
        \/ Len(q) >= PrefixMinLen /\ StartsWith(n.nodeId, q)

\* Array.isArray(n.caps) ? n.caps.includes("canvas") : true
HasCanvas(n) == "caps" \in DOMAIN n => "canvas" \in n.caps

IsConnected(n) == "connected" \in DOMAIN n /\ n.connected

MacPlatformPrefix == <<"m", "a", "c">>
MacIdPrefix == <<"m", "a", "c", "-">>

\* the tie-break predicate of pickDefaultNode
IsLocalMac(n) ==
    /\ "platform" \in DOMAIN n
    /\ StartsWith(ToLowerCase(n.platform), MacPlatformPrefix)
    /\ StartsWith(n.nodeId, MacIdPrefix)

\* pickDefaultNode without the preference for connected nodes
pickDefaultNodeNoPreference(ns) ==
    LET withCanvas == SelectSeq(ns, HasCanvas)
        candidates == withCanvas
        local      == SelectSeq(candidates, IsLocalMac)
    IN  IF Len(withCanvas) = 0 THEN [found |-> FALSE]
        ELSE IF Len(candidates) = 1 THEN [found |-> TRUE, node |-> candidates[1]]
        ELSE IF Len(local) = 1 THEN [found |-> TRUE, node |-> local[1]]
        ELSE [found |-> FALSE]

\* pickDefaultNode taking the first of several tie-break matches
pickDefaultNodeFirstLocal(ns) ==
    LET withCanvas == SelectSeq(ns, HasCanvas)
        connected  == SelectSeq(withCanvas, IsConnected)
        candidates == IF Len(connected) > 0 THEN connected ELSE withCanvas
        local      == SelectSeq(candidates, IsLocalMac)
    IN  IF Len(withCanvas) = 0 THEN [found |-> FALSE]
        ELSE IF Len(candidates) = 1 THEN [found |-> TRUE, node |-> candidates[1]]
        ELSE IF Len(local) >= 1 THEN [found |-> TRUE, node |-> local[1]]
        ELSE [found |-> FALSE]

\* pickDefaultNode: found = FALSE stands for null
pickDefaultNode(ns) ==
    LET withCanvas == SelectSeq(ns, HasCanvas)
        connected  == SelectSeq(withCanvas, IsConnected)
        candidates == IF Len(connected) > 0 THEN connected ELSE withCanvas
        local      == SelectSeq(candidates, IsLocalMac)
    IN  IF Len(withCanvas) = 0 THEN [found |-> FALSE]
        ELSE IF Len(candidates) = 1 THEN [found |-> TRUE, node |-> candidates[1]]
        ELSE IF Len(local) = 1 THEN [found |-> TRUE, node |-> local[1]]
        ELSE [found |-> FALSE]

\* String(query ?? "").trim() of the --node option
QueryOf(o) == Trim(Field(o, "node"))

\* ResolveIn taking the first of several matches
ResolveInFirstMatch(ns, query) ==
    LET q       == Trim(query)
        picked  == pickDefaultNode(ns)
        matches == SelectSeq(ns, LAMBDA n : MatchesQuery(n, q))
        known   == JoinStrings(
                       SelectSeq(NodeLabels(ns), LAMBDA l : l # <<>>),
                       CommaSpace)
    IN  IF q = <<>>
        THEN IF picked.found
             THEN [ok |-> TRUE, nodeId |-> picked.node.nodeId]
             ELSE [ok |-> FALSE, kind |-> "node required"]
        ELSE IF Len(matches) >= 1
        THEN [ok |-> TRUE, nodeId |-> matches[1].nodeId]
        ELSE [ok |-> FALSE, kind |-> "unknown node", q |-> q, known |-> known]

\* resolveNodeId after loadNodes returned ns: the node id it returns, or
\* the Error it throws
ResolveIn(ns, query) ==
    LET q       == Trim(query)
        picked  == pickDefaultNode(ns)
        matches == SelectSeq(ns, LAMBDA n : MatchesQuery(n, q))
        known   == JoinStrings(
                       SelectSeq(NodeLabels(ns), LAMBDA l : l # <<>>),
                       CommaSpace)
    IN  IF q = <<>>
        THEN IF picked.found
             THEN [ok |-> TRUE, nodeId |-> picked.node.nodeId]
             ELSE [ok |-> FALSE, kind |-> "node required"]
        ELSE IF Len(matches) = 1
        THEN [ok |-> TRUE, nodeId |-> matches[1].nodeId]
        ELSE IF Len(matches) = 0
        THEN [ok |-> FALSE, kind |-> "unknown node", q |-> q, known |-> known]
        ELSE [ok |-> FALSE, kind |-> "ambiguous node", q |-> q,
              matches |-> JoinStrings(NodeLabels(matches), CommaSpace)]

-----------------------------------------------------------------------------
(* The node directory adapter.                                             *)

\* parseNodeList: the nodes array of the response, [] for any other shape
parseNodeList(res) == IF "nodes" \in DOMAIN res THEN res.nodes ELSE <<>>

\* parsePairingList
parsePairingList(res) ==
    [pending |-> IF "pending" \in DOMAIN res THEN res.pending ELSE <<>>,
     paired  |-> IF "paired" \in DOMAIN res THEN res.paired ELSE <<>>]

\* the paired.map of loadNodes: nodeId, displayName and remoteIp only
PairedToNode(n) ==
    [f \in DOMAIN n \cap {"nodeId", "displayName", "remoteIp"} |-> n[f]]

\* loadNodes: what the catch returns for the answer of node.pair.list
PairedNodes(res) ==
    [i \in 1..Len(parsePairingList(res).paired) |->
        PairedToNode(parsePairingList(res).paired[i])]

-----------------------------------------------------------------------------
(* The inputs: payload texts, node directories, queries, options.          *)

\* The lines the payload texts are made of.
LineForms ==
    { <<CR>>,                 \* a blank line: empty before a line feed
      <<SP, "{sU,x}", CR>>,   \* a v0.8 message, indented, CR LF line ending
      <<"{cS}">>,             \* a v0.9 message
      <<"{oops">>,            \* not JSON
      <<"null">>,             \* JSON, not an object
      <<"[1]">>,              \* JSON, an array
      <<"{x}">>,              \* an object with no action key
      <<"{bR,cS}">> }         \* an object with two action keys

RECURSIVE JoinLines(_)
\* the lines with a line feed between them
JoinLines(ls) ==
    IF ls = <<>> THEN <<>>
    ELSE IF Len(ls) = 1 THEN ls[1]
    ELSE ls[1] \o <<LF>> \o JoinLines(Tail(ls))

Texts == { JoinLines(ls) : ls \in UNION { [1..n -> LineForms] : n \in 0..MaxLines } }

\* The payload files of the full command flow: one of each kind.
FlowTexts ==
    { <<>>,
      <<"{bR}", LF, "{sU}">>,
      <<"{dMU}", CR, LF, LF, SP, "{dS}", LF>>,
      <<"{cS}">>,
      <<"{cS}", LF, "{bR}">>,
      <<"{bR}", LF, "{oops", LF, "7", LF, "[1]", LF, "{}">>,
      <<"{bR}", SP, "{sU}">>,
      <<"{x}", LF, "{bR,sU}">> }

IdMac123 == <<"m", "a", "c", "-", "1", "2", "3">>
IdMac12  == <<"m", "a", "c", "-", "1", "2">>
IdPc7    == <<"p", "c", "-", "7">>
IdIpad9  == <<"i", "p", "a", "d", "-", "9">>
Ip1      == <<"1", "0", ".", "1">>
Ip2      == <<"1", "0", ".", "2">>
MacOS    == <<"m", "a", "c", "O", "S">>
MacIntel == <<"M", "a", "c", "I", "n", "t", "e", "l">>
Linux    == <<"l", "i", "n", "u", "x">>

\* The node records the gateway's answers are made of.
NodePool ==
    { [nodeId |-> IdMac123,
       displayName |-> <<"S", "t", "u", "d", "i", "o", " ", "M", "a", "c">>,
       platform |-> MacOS, remoteIp |-> Ip1, caps |-> {"canvas"},
       connected |-> TRUE],
      [nodeId |-> IdMac123,
       displayName |-> <<"s", "t", "u", "d", "i", "o", "-", "m", "a", "c", "!">>,
       platform |-> Linux],
      [nodeId |-> IdMac12,
       displayName |-> <<"M", "a", "c", " ", "1", "2", "3">>,
       platform |-> MacIntel, remoteIp |-> Ip1, caps |-> {"canvas", "camera"},
       connected |-> FALSE],
      [nodeId |-> IdMac12, platform |-> MacOS, connected |-> TRUE],
      [nodeId |-> IdPc7, caps |-> {"canvas"}, connected |-> FALSE],
      [nodeId |-> IdPc7, displayName |-> <<>>, remoteIp |-> Ip2,
       caps |-> {"camera"}, connected |-> TRUE],
      [nodeId |-> IdIpad9, displayName |-> <<"!", "!">>, platform |-> MacOS,
       remoteIp |-> Ip2, caps |-> {"canvas"}, connected |-> TRUE],
      [nodeId |-> IdIpad9, displayName |-> <<"P", "C", " ", "7">>,
       caps |-> {}, connected |-> FALSE] }

\* The directories: up to MaxNodes nodes with different ids.
Directories ==
    { d \in UNION { [1..n -> NodePool] : n \in 0..MaxNodes } :
        \A i, j \in DOMAIN d : i # j => d[i].nodeId # d[j].nodeId }

Prefixes(s) == { SubSeq(s, 1, n) : n \in 1..Len(s) }

\* The values of --node: ids and their prefixes, addresses, names in
\* several spellings, padded and blank strings.
Queries ==
    Prefixes(IdMac123) \cup Prefixes(IdPc7) \cup Prefixes(IdIpad9)
    \cup { Ip1, Ip2,
           <<"s", "t", "u", "d", "i", "o", " ", "m", "a", "c">>,
           <<"S", "T", "U", "D", "I", "O", "_", "M", "A", "C">>,
           <<"M", "a", "c", "-", "1", "2", "3">>,
           <<"?", "?">>,
           <<"n", "o", "p", "e">>,
           <<SP>> \o IdPc7 \o <<SP>>,
           <<SP, SP>>,
           <<>> }

FlowQueries ==
    { IdMac123, IdMac12, <<"m", "a", "c", "-", "1">>, Ip2,
      <<"s", "t", "u", "d", "i", "o", " ", "m", "a", "c">>, <<SP>> }

\* Commander's defaults: --timeout "10000", --json false.  The positional
\* arguments of navigate and eval are kept with the options, as urlArg and
\* jsArg.
DefaultOpts == [timeout |-> <<"1", "0", "0", "0", "0">>, json |-> FALSE]

\* the options with and without each of the optional fields fs
RECURSIVE WithOptional(_, _)
WithOptional(os, choices) ==
    IF choices = <<>> THEN os
    ELSE WithOptional(
             os \cup { (choices[1].field :> v) @@ o :
                           o \in os, v \in choices[1].values },
             Tail(choices))

NodeChoice(qs) == [field |-> "node", values |-> qs]

Commands ==
    {"snapshot", "present", "hide", "navigate", "eval", "a2ui.push",
     "a2ui.reset"}

PathA == <<"a", ".", "j", "s", "o", "n", "l">>
Hello == <<"h", "i">>
Png   == <<"p", "n", "g">>

OptsOf(cmd, qs) ==
    CASE cmd = "a2ui.push" ->
           WithOptional({DefaultOpts},
               <<NodeChoice(qs),
                 [field |-> "jsonl", values |-> {PathA, <<>>}],
                 [field |-> "text", values |-> {Hello, <<>>}]>>)
      [] cmd = "eval" ->
           WithOptional({DefaultOpts},
               <<NodeChoice(qs),
                 [field |-> "js", values |-> {<<"1">>, <<>>}],
                 [field |-> "jsArg", values |-> {<<"2">>}]>>)
      [] cmd = "snapshot" ->
           WithOptional({DefaultOpts},
               <<NodeChoice(qs),
                 [field |-> "format",
                  values |-> {<<SP, "J", "P", "G">>, <<"g", "i", "f">>}]>>)
      [] cmd = "present" ->
           WithOptional({DefaultOpts},
               <<NodeChoice(qs),
                 [field |-> "target", values |-> {<<"/">>}]>>)
      [] cmd = "navigate" ->
           WithOptional({("urlArg" :> <<"/">>) @@ DefaultOpts},
                        <<NodeChoice(qs)>>)
      [] OTHER -> WithOptional({DefaultOpts}, <<NodeChoice(qs)>>)

-----------------------------------------------------------------------------
(* The command handlers.  Each action is one stretch of a handler between  *)
(* two awaits: pc names the await the handler is suspended at.             *)

Running == [status |-> "running"]

\* the handler's catch: defaultRuntime.error(...), defaultRuntime.exit(1)
Failed(err) == [status |-> "error", exit |-> 1, err |-> err]

\* callGatewayCli: the call is issued and awaited
CallGateway(c) ==
    /\ calls' = Append(calls, c)
    /\ inflight' = {Len(calls) + 1}

\* the awaited call has answered with res
Answered(res) == results' = Append(results, [ok |-> TRUE, res |-> res])

\* the awaited call has failed (a gateway error, a timeout)
Rejected == results' = Append(results, [ok |-> FALSE])

\* the command name sent to the node
CanvasCommand ==
    [c \in Commands |->
       CASE c = "snapshot"   -> "canvas.snapshot"
         [] c = "present"    -> "canvas.present"
         [] c = "hide"       -> "canvas.hide"
         [] c = "navigate"   -> "canvas.navigate"
         [] c = "eval"       -> "canvas.eval"
         [] c = "a2ui.push"  -> "canvas.a2ui.pushJSONL"
         [] c = "a2ui.reset" -> "canvas.a2ui.reset"]

\* normalizeFormat
normalizeFormat(format) ==
    LET trimmed == ToLowerCase(Trim(format))
    IN  IF trimmed = <<"j", "p", "g">> THEN <<"j", "p", "e", "g">> ELSE trimmed

\* the format the snapshot handler asks for: opts.format ?? "png", normalized
SnapshotFormat(o) ==
    normalizeFormat(IF "format" \in DOMAIN o THEN o.format ELSE Png)

\* the params of the node.invoke call; no params field stands for undefined
InvokeParams(c, o, text) ==
    CASE c = "snapshot"  -> [params |-> [format |-> SnapshotFormat(o)]]
      [] c = "present"   -> [params |->
                               [f \in DOMAIN o \cap {"target"} |-> o[f]]]
      [] c = "navigate"  -> [params |-> [url |-> o.urlArg]]
      [] c = "eval"      -> [params |->
                               [javaScript |-> IF "js" \in DOMAIN o
                                               THEN o.js ELSE o.jsArg]]
      [] c = "a2ui.push" -> [params |-> [jsonl |-> text]]
      [] OTHER           -> [method |-> "node.invoke"]

\* loadNodes up to its first await: the node.list call
StartLoadNodes ==
    /\ CallGateway([method |-> "node.list"])
    /\ pc' = "node.list"
    /\ outcome' = outcome

\* buildA2UITextJsonl: a surfaceUpdate line and a beginRendering line.
\* JSON.stringify escapes the text, which so never adds a line.
buildA2UITextJsonl(text) == <<"{sU}", LF, "{bR}">>

\* PushPayload without the version check
PushPayloadAnyVersion(text) ==
    LET v == validateA2UIJsonl(text)
    IN  /\ jsonl' = text
        /\ validation' = v
        /\ IF ~v.ok
           THEN /\ outcome' = Failed(v)
                /\ pc' = "done"
                /\ UNCHANGED <<calls, inflight>>
           ELSE StartLoadNodes

\* the a2ui push handler from validateA2UIJsonl on
PushPayload(text) ==
    LET v == validateA2UIJsonl(text)
    IN  /\ jsonl' = text
        /\ validation' = v
        /\ IF ~v.ok
           THEN /\ outcome' = Failed(v)
                /\ pc' = "done"
                /\ UNCHANGED <<calls, inflight>>
           ELSE IF v.version = "v0.9"
           THEN /\ outcome' = Failed([kind |-> "Detected A2UI v0.9 JSONL"])
                /\ pc' = "done"
                /\ UNCHANGED <<calls, inflight>>
           ELSE StartLoadNodes

\* resolveNodeId from the return of loadNodes on, and the handler up to its
\* node.invoke call
AfterLoadNodes(ns) ==
    LET r == ResolveIn(ns, Field(opts, "node"))
    IN  /\ nodes' = ns
        /\ IF ~r.ok
           THEN /\ outcome' = Failed(r)
                /\ pc' = "done"
                /\ inflight' = {}
                /\ UNCHANGED <<nodeId, calls>>
           ELSE IF command = "snapshot"
                   /\ SnapshotFormat(opts) \notin {Png, <<"j", "p", "e", "g">>}
           THEN /\ nodeId' = r.nodeId
                /\ outcome' = Failed([kind |-> "invalid format"])
                /\ pc' = "done"
                /\ inflight' = {}
                /\ UNCHANGED calls
           ELSE /\ nodeId' = r.nodeId
                /\ CallGateway([method |-> "node.invoke", nodeId |-> r.nodeId,
                                command |-> CanvasCommand[command]]
                               @@ InvokeParams(command, opts, jsonl))
                /\ pc' = "node.invoke"
                /\ outcome' = outcome

\* present, hide, navigate, a2ui reset and snapshot: straight to
\* resolveNodeId
Present ==
    /\ pc = "start" /\ command = "present"
    /\ StartLoadNodes
    /\ UNCHANGED <<command, opts, jsonl, validation, nodes, nodeId, results>>

Hide ==
    /\ pc = "start" /\ command = "hide"
    /\ StartLoadNodes
    /\ UNCHANGED <<command, opts, jsonl, validation, nodes, nodeId, results>>

Navigate ==
    /\ pc = "start" /\ command = "navigate"
    /\ StartLoadNodes
    /\ UNCHANGED <<command, opts, jsonl, validation, nodes, nodeId, results>>

A2uiReset ==
    /\ pc = "start" /\ command = "a2ui.reset"
    /\ StartLoadNodes
    /\ UNCHANGED <<command, opts, jsonl, validation, nodes, nodeId, results>>

Snapshot ==
    /\ pc = "start" /\ command = "snapshot"
    /\ StartLoadNodes
    /\ UNCHANGED <<command, opts, jsonl, validation, nodes, nodeId, results>>

\* eval: opts.js ?? jsArg must be a non-empty string
Eval ==
    /\ pc = "start" /\ command = "eval"
    /\ IF (IF "js" \in DOMAIN opts THEN opts.js ELSE Field(opts, "jsArg")) = <<>>
       THEN /\ outcome' = Failed([kind |-> "missing --js or <js>"])
            /\ pc' = "done"
            /\ UNCHANGED <<calls, inflight>>
       ELSE StartLoadNodes
    /\ UNCHANGED <<command, opts, jsonl, validation, nodes, nodeId, results>>

\* a2ui push: exactly one of --jsonl and --text; the text is built into a
\* payload at once, the file is read first
A2uiPush ==
    /\ pc = "start" /\ command = "a2ui.push"
    /\ LET hasJsonl == Field(opts, "jsonl") # <<>>
           hasText  == "text" \in DOMAIN opts
       IN  IF hasJsonl = hasText
           THEN /\ outcome' = Failed([kind |->
                                "provide exactly one of --jsonl or --text"])
                /\ pc' = "done"
                /\ UNCHANGED <<jsonl, validation, calls, inflight>>
           ELSE IF hasText
           THEN PushPayload(buildA2UITextJsonl(opts.text))
           ELSE /\ pc' = "readFile"
                /\ UNCHANGED <<jsonl, validation, calls, inflight, outcome>>
    /\ UNCHANGED <<command, opts, nodes, nodeId, results>>

\* fs.readFile returned the file's text
ReadFileOk(text) ==
    /\ pc = "readFile"
    /\ PushPayload(text)
    /\ UNCHANGED <<command, opts, nodes, nodeId, results>>

\* fs.readFile threw
ReadFileFail ==
    /\ pc = "readFile"
    /\ outcome' = Failed([kind |-> "readFile"])
    /\ pc' = "done"
    /\ UNCHANGED <<command, opts, jsonl, validation, nodes, nodeId, calls,
                   inflight, results>>

\* NodeListOk falling back to node.pair.list on an answer without nodes
NodeListOkFallback(res) ==
    /\ pc = "node.list"
    /\ Answered(res)
    /\ IF "nodes" \in DOMAIN res
       THEN AfterLoadNodes(parseNodeList(res))
       ELSE /\ CallGateway([method |-> "node.pair.list"])
            /\ pc' = "node.pair.list"
            /\ UNCHANGED <<nodes, nodeId, outcome>>
    /\ UNCHANGED <<command, opts, jsonl, validation>>

\* loadNodes: node.list answered with res
NodeListOk(res) ==
    /\ pc = "node.list"
    /\ Answered(res)
    /\ AfterLoadNodes(parseNodeList(res))
    /\ UNCHANGED <<command, opts, jsonl, validation>>

\* NodeListFail without the catch: the failure reaches the handler
NodeListFailNoFallback ==
    /\ pc = "node.list"
    /\ Rejected
    /\ inflight' = {}
    /\ outcome' = Failed([kind |-> "gateway", method |-> "node.list"])
    /\ pc' = "done"
    /\ UNCHANGED <<command, opts, jsonl, validation, nodes, nodeId, calls>>

\* loadNodes: node.list failed; the catch calls node.pair.list
NodeListFail ==
    /\ pc = "node.list"
    /\ Rejected
    /\ CallGateway([method |-> "node.pair.list"])
    /\ pc' = "node.pair.list"
    /\ UNCHANGED <<command, opts, jsonl, validation, nodes, nodeId, outcome>>

\* loadNodes: node.pair.list answered with res
PairListOk(res) ==
    /\ pc = "node.pair.list"
    /\ Answered(res)
    /\ AfterLoadNodes(PairedNodes(res))
    /\ UNCHANGED <<command, opts, jsonl, validation>>

\* loadNodes: node.pair.list failed too; the error reaches the handler
PairListFail ==
    /\ pc = "node.pair.list"
    /\ outcome' = Failed([kind |-> "gateway", method |-> "node.pair.list"])
    /\ pc' = "done"
    /\ Rejected
    /\ inflight' = {}
    /\ UNCHANGED <<command, opts, jsonl, validation, nodes, nodeId, calls>>

\* node.invoke answered.  The snapshot handler goes on to decode the
\* payload (which may be malformed) and to write the file; to the other
\* handlers the answer is opaque.
NodeInvokeOk(payloadOk) ==
    /\ pc = "node.invoke"
    /\ command # "snapshot" => payloadOk
    /\ Answered([payloadOk |-> payloadOk])
    /\ inflight' = {}
    /\ IF command # "snapshot"
       THEN pc' = "done" /\ outcome' = [status |-> "ok"]
       ELSE IF payloadOk
       THEN pc' = "writeFile" /\ outcome' = outcome
       ELSE pc' = "done" /\ outcome' = Failed([kind |-> "invalid snapshot payload"])
    /\ UNCHANGED <<command, opts, jsonl, validation, nodes, nodeId, calls>>

\* NodeInvokeFail retrying the call once
NodeInvokeFailRetry ==
    /\ pc = "node.invoke"
    /\ Rejected
    /\ IF Len(SelectSeq(calls, LAMBDA c : c.method = "node.invoke")) = 1
       THEN /\ CallGateway(calls[Len(calls)])
            /\ UNCHANGED <<pc, outcome>>
       ELSE /\ inflight' = {}
            /\ outcome' = Failed([kind |-> "gateway", method |-> "node.invoke"])
            /\ pc' = "done"
    /\ UNCHANGED <<command, opts, jsonl, validation, nodes, nodeId>>

\* node.invoke failed; nothing retries it
NodeInvokeFail ==
    /\ pc = "node.invoke"
    /\ Rejected
    /\ inflight' = {}
    /\ outcome' = Failed([kind |-> "gateway", method |-> "node.invoke"])
    /\ pc' = "done"
    /\ UNCHANGED <<command, opts, jsonl, validation, nodes, nodeId, calls>>

\* snapshot: writeBase64ToFile returned or threw
WriteFile(ok) ==
    /\ pc = "writeFile"
    /\ outcome' = IF ok THEN [status |-> "ok"]
                  ELSE Failed([kind |-> "writeFile"])
    /\ pc' = "done"
    /\ UNCHANGED <<command, opts, jsonl, validation, nodes, nodeId, calls,
                   inflight, results>>

-----------------------------------------------------------------------------
(* The gateway's answers.                                                  *)

\* node.list: a nodes array, or an object of another shape
NodeListResponses ==
    { [nodes |-> d] : d \in Directories } \cup { [ts |-> 0] }

PendingRequest == [requestId |-> <<"r", "1">>, nodeId |-> IdPc7]

\* node.pair.list: pending and paired, or an object of another shape
PairListResponses ==
    { [pending |-> p, paired |-> d] :
        p \in {<<>>, <<PendingRequest>>}, d \in Directories }
    \cup { [ts |-> 0] }

-----------------------------------------------------------------------------
(* The specifications.                                                     *)

\* One command, from the start of its handler.
Init ==
    /\ pc = "start"
    /\ command \in Commands
    /\ opts \in OptsOf(command, FlowQueries)
    /\ jsonl = <<>>
    /\ validation = [called |-> FALSE]
    /\ nodes = <<>>
    /\ nodeId = <<>>
    /\ calls = <<>>
    /\ inflight = {}
    /\ results = <<>>
    /\ outcome = Running

Next ==
    \/ Present
    \/ Hide
    \/ Navigate
    \/ A2uiReset
    \/ Snapshot
    \/ Eval
    \/ A2uiPush
    \/ pc = "readFile" /\ \E text \in FlowTexts : ReadFileOk(text)
    \/ ReadFileFail
    \/ pc = "node.list" /\ \E res \in NodeListResponses : NodeListOk(res)
    \/ NodeListFail
    \/ pc = "node.pair.list"
          /\ \E res \in PairListResponses : PairListOk(res)
    \/ PairListFail
    \/ \E payloadOk \in BOOLEAN : NodeInvokeOk(payloadOk)
    \/ NodeInvokeFail
    \/ \E ok \in BOOLEAN : WriteFile(ok)

Spec == Init /\ [][Next]_vars

\* validateA2UIJsonl on every text: a2ui push --jsonl, from the return of
\* fs.readFile.
InitValidate ==
    /\ pc = "readFile"
    /\ command = "a2ui.push"
    /\ opts = ("jsonl" :> PathA) @@ DefaultOpts
    /\ jsonl = <<>>
    /\ validation = [called |-> FALSE]
    /\ nodes = <<>>
    /\ nodeId = <<>>
    /\ calls = <<>>
    /\ inflight = {}
    /\ results = <<>>
    /\ outcome = Running

NextValidate == pc = "readFile" /\ \E text \in Texts : ReadFileOk(text)

SpecValidate == InitValidate /\ [][NextValidate]_vars

\* resolveNodeId on every directory and query: a command that goes through
\* invokeCanvas, from the answer to its node.list call.
InitResolve ==
    /\ pc = "node.list"
    /\ command = "present"
    /\ opts \in WithOptional({DefaultOpts}, <<NodeChoice(Queries)>>)
    /\ jsonl = <<>>
    /\ validation = [called |-> FALSE]
    /\ nodes = <<>>
    /\ nodeId = <<>>
    /\ calls = <<[method |-> "node.list"]>>
    /\ inflight = {1}
    /\ results = <<>>
    /\ outcome = Running

NextResolve ==
    \/ pc = "node.list" /\ \E res \in NodeListResponses : NodeListOk(res)
    \/ \E payloadOk \in BOOLEAN : NodeInvokeOk(payloadOk)
    \/ NodeInvokeFail

SpecResolve == InitResolve /\ [][NextResolve]_vars

-----------------------------------------------------------------------------
(* What the claims are stated in.                                          *)

MethodCalls(m) == SelectSeq(calls, LAMBDA c : c.method = m)

Issued(m) == \E i \in DOMAIN calls : calls[i].method = m

\* the handler's catch ran: the error was reported and exit(1) called
ErrorExit == pc = "done" /\ outcome.status = "error" /\ outcome.exit = 1

ErrorKind(k) == ErrorExit /\ outcome.err.kind = k

\* validateA2UIJsonl has run on jsonl
Validated == "ok" \in DOMAIN validation

ActionKeySet == { A2UI_ACTION_KEYS[i] : i \in DOMAIN A2UI_ACTION_KEYS }

\* the positions (1-based) of the non-blank lines among the lines of a text
NonBlank(lines) == { i \in DOMAIN lines : Trim(lines[i]) # <<>> }

NonBlankLines(text) == NonBlank(SplitLines(text))

\* the line is JSON
LineIsJson(line) ==
    Len(Trim(line)) = 1 /\ Trim(line)[1] \in DOMAIN AtomValue

\* the line is a JSON object with exactly one recognized action key
LineWellFormed(line) ==
    /\ LineIsJson(line)
    /\ AtomValue[Trim(line)[1]].type = "object"
    /\ Cardinality(AtomValue[Trim(line)[1]].keys \cap ActionKeySet) = 1

\* the action key of a well-formed line
LineActionKey(line) ==
    CHOOSE k \in AtomValue[Trim(line)[1]].keys \cap ActionKeySet : TRUE

LineIsV09(line) == LineWellFormed(line) /\ LineActionKey(line) = "createSurface"

LineIsV08(line) == LineWellFormed(line) /\ LineActionKey(line) # "createSurface"

\* a stream of well-formed v0.8 lines, at least one
TextIsValidV08(text) ==
    LET lines == SplitLines(text)
    IN  /\ NonBlank(lines) # {}
        /\ \A i \in NonBlank(lines) : LineIsV08(lines[i])

-----------------------------------------------------------------------------
(* C1: a2ui push issues gateway calls only for a payload that validated as *)
(* v0.8.  A payload that fails validation, and a valid v0.9 payload, end   *)
(* the command in the error/exit(1) outcome with no gateway call at all    *)
(* issued, and the v0.9 rejection is not the aggregated validation error.  *)
C1_PushForwardsOnlyValidatedV08 ==
    command = "a2ui.push" =>
        /\ calls # <<>> =>
               /\ Validated /\ validation.ok /\ validation.version = "v0.8"
               /\ TextIsValidV08(jsonl)
        /\ \A i \in DOMAIN calls :
               calls[i].method = "node.invoke" => calls[i].params.jsonl = jsonl
        /\ (Validated /\ ~TextIsValidV08(jsonl)) =>
               ErrorExit /\ calls = <<>>
        /\ (Validated /\ ~validation.ok) =>
               ErrorKind("Invalid A2UI JSONL") /\ outcome.err.errors # <<>>
        /\ (Validated /\ validation.ok /\ validation.version = "v0.9") =>
               /\ ErrorExit /\ calls = <<>>
               /\ outcome.err.kind # "Invalid A2UI JSONL"
               /\ "errors" \notin DOMAIN outcome.err

\* a valid v0.9 file was rejected before any gateway call
C1_Witness ==
    /\ command = "a2ui.push" /\ pc = "done"
    /\ Validated /\ validation.ok /\ validation.version = "v0.9"
    /\ jsonl = <<"{cS}">>
    /\ ErrorKind("Detected A2UI v0.9 JSONL") /\ calls = <<>>

-----------------------------------------------------------------------------
ViaInvokeCanvas ==
    command \in {"present", "hide", "navigate", "a2ui.push", "a2ui.reset"}

DirectoryMethods == {"node.list", "node.pair.list"}

\* a directory call has answered: loadNodes returned
DirectoryLoaded ==
    \E j \in DOMAIN results : calls[j].method \in DirectoryMethods /\ results[j].ok

\* the node.invoke call has failed
InvokeFailed ==
    \E j \in DOMAIN results : calls[j].method = "node.invoke" /\ ~results[j].ok

(* C2: a command that goes through invokeCanvas issues node.invoke exactly *)
(* once when the resolution succeeds and never when the directory fetch or *)
(* the resolution fails; the call starts after every directory call has    *)
(* settled, no two calls are ever in flight together, it carries the node  *)
(* id the resolution returned, and a failed node.invoke is not retried:    *)
(* the command ends in the error/exit(1) outcome.                          *)
C2_InvokeOnceAfterResolution ==
    ViaInvokeCanvas =>
        /\ Cardinality(inflight) <= 1 /\ inflight \subseteq {Len(calls)}
        /\ Len(MethodCalls("node.invoke")) <= 1
        /\ \A i \in DOMAIN calls :
               calls[i].method = "node.invoke" =>
                   /\ i = Len(calls) /\ i > 1
                   /\ \A j \in 1..(i - 1) :
                          /\ calls[j].method \in DirectoryMethods
                          /\ j \in DOMAIN results /\ j \notin inflight
                   /\ results[i - 1].ok
                   /\ calls[i].nodeId = nodeId
                   /\ ResolveIn(nodes, Field(opts, "node"))
                          = [ok |-> TRUE, nodeId |-> nodeId]
        /\ (DirectoryLoaded /\ ResolveIn(nodes, Field(opts, "node")).ok) =>
               Len(MethodCalls("node.invoke")) = 1
        /\ (DirectoryLoaded /\ ~ResolveIn(nodes, Field(opts, "node")).ok) =>
               ErrorExit /\ ~Issued("node.invoke")
        /\ ErrorKind("gateway") /\ outcome.err.method = "node.pair.list" =>
               ~Issued("node.invoke")
        /\ InvokeFailed =>
               /\ ErrorKind("gateway") /\ outcome.err.method = "node.invoke"
               /\ Len(MethodCalls("node.invoke")) = 1 /\ inflight = {}

\* node.invoke failed after a fallback directory fetch, and the command ended
C2_Witness ==
    /\ ViaInvokeCanvas /\ InvokeFailed /\ pc = "done"
    /\ Len(calls) = 3 /\ Len(nodes) > 1

-----------------------------------------------------------------------------
(* C3: loadNodes issues node.pair.list exactly when node.list failed, and  *)
(* each of the two directory calls at most once; when node.pair.list fails *)
(* too, the failure reaches the handler, no other call follows and no      *)
(* node.invoke is issued.                                                  *)
C3_FallbackExactlyOnPrimaryFailure ==
    /\ Len(MethodCalls("node.list")) <= 1
    /\ Len(MethodCalls("node.pair.list")) <= 1
    /\ Issued("node.pair.list") <=>
           \E j \in DOMAIN results :
               calls[j].method = "node.list" /\ ~results[j].ok
    /\ \A j \in DOMAIN results :
           (calls[j].method = "node.pair.list" /\ ~results[j].ok) =>
               /\ ErrorKind("gateway") /\ outcome.err.method = "node.pair.list"
               /\ Len(calls) = j /\ inflight = {}
               /\ ~Issued("node.invoke")

\* both directory calls failed
C3_Witness ==
    /\ pc = "done" /\ Len(results) = 2
    /\ ~results[1].ok /\ ~results[2].ok
    /\ calls[2].method = "node.pair.list"

-----------------------------------------------------------------------------
\* node.list answered with an object that has no nodes array
ListAnsweredWithoutNodes ==
    \E j \in DOMAIN results :
        /\ calls[j].method = "node.list" /\ results[j].ok
        /\ "nodes" \notin DOMAIN results[j].res

\* C4 as stated: an answer of node.list without a nodes array makes the
\* adapter issue node.pair.list
C4_Original == ListAnsweredWithoutNodes => Issued("node.pair.list")

(* C4, amended: an answer of node.list without a nodes array is an empty   *)
(* directory.  No node.pair.list call is issued; the resolution runs on    *)
(* the empty directory and fails (node required for a blank query, unknown *)
(* node with no known nodes otherwise), and no node.invoke is issued.      *)
C4_MissingNodesIsEmptyDirectory ==
    ListAnsweredWithoutNodes =>
        /\ ~Issued("node.pair.list") /\ ~Issued("node.invoke")
        /\ Len(calls) = 1 /\ nodes = <<>>
        /\ IF QueryOf(opts) = <<>>
           THEN ErrorKind("node required")
           ELSE ErrorKind("unknown node") /\ outcome.err.known = <<>>

\* an explicit query met the empty directory of such an answer
C4_Witness ==
    /\ ListAnsweredWithoutNodes /\ QueryOf(opts) = IdMac123
    /\ ErrorKind("unknown node")

-----------------------------------------------------------------------------
\* the violations validateA2UIJsonl reported, in the order of its message
ReportedErrors == IF Validated /\ ~validation.ok THEN validation.errors ELSE <<>>

\* the reported violations that are tagged with a line
LineEntries == SelectSeq(ReportedErrors, LAMBDA e : "line" \in DOMAIN e)

\* the positions of the non-blank lines that are not well-formed
Offending(lines) == { i \in NonBlank(lines) : ~LineWellFormed(lines[i]) }

OffendingLines(text) == Offending(SplitLines(text))

\* what is wrong with an offending line
LineViolation(line) ==
    IF ~LineIsJson(line) THEN "SyntaxError"
    ELSE IF AtomValue[Trim(line)[1]].type # "object" THEN "expected JSON object"
    ELSE "expected exactly one action key"

(* C5: validateA2UIJsonl scans every line before it fails.  The reported   *)
(* list has exactly one entry for each non-blank line that is not JSON, is *)
(* not an object, or has not exactly one action key; the entry is tagged   *)
(* with the line's 1-based position in the split input, blank lines        *)
(* counted; the line entries are in increasing line order, and the         *)
(* stream-level entries come after all of them.                            *)
C5_AllViolationsReported ==
    Validated =>
        LET lines     == SplitLines(jsonl)
            offending == Offending(lines)
            entries   == LineEntries
        IN  /\ offending # {} => ~validation.ok
            /\ Len(entries) = Cardinality(offending)
            /\ { entries[k].line : k \in DOMAIN entries } = offending
            /\ \A k \in DOMAIN entries :
                   entries[k].msg = LineViolation(lines[entries[k].line])
            /\ \A k \in 1..(Len(entries) - 1) :
                   entries[k].line < entries[k + 1].line
            /\ \A k, m \in DOMAIN ReportedErrors :
                   (k < m /\ "line" \notin DOMAIN ReportedErrors[k]) =>
                       "line" \notin DOMAIN ReportedErrors[m]

\* violations on lines 2 and 5, a blank line 3 between them: both reported
C5_Witness ==
    /\ Validated /\ OffendingLines(jsonl) = {2, 5}
    /\ 3 \notin NonBlankLines(jsonl)
    /\ Len(LineEntries) = 2
    /\ LineEntries[1].line = 2 /\ LineEntries[2].line = 5

-----------------------------------------------------------------------------
(* C6: when validateA2UIJsonl succeeds, every non-blank line is a JSON     *)
(* object with exactly one action key, messageCount is at least 1 and is   *)
(* the number of non-blank lines, and the version is v0.9 if and only if   *)
(* some line's action key is createSurface, else v0.8.  Every stream of    *)
(* well-formed v0.8 lines, at least one, succeeds with v0.8.  The empty    *)
(* string and whitespace-only input never succeed.                         *)
C6_SuccessMeansWellFormed ==
    Validated =>
        LET lines    == SplitLines(jsonl)
            nonblank == NonBlank(lines)
        IN  /\ validation.ok =>
                   /\ \A i \in nonblank : LineWellFormed(lines[i])
                   /\ validation.messageCount >= 1
                   /\ validation.messageCount = Cardinality(nonblank)
                   /\ validation.version =
                          IF \E i \in nonblank : LineIsV09(lines[i])
                          THEN "v0.9" ELSE "v0.8"
            /\ ( /\ nonblank # {}
                 /\ \A i \in nonblank : LineIsV08(lines[i]) )
               => validation.ok /\ validation.version = "v0.8"
            /\ nonblank = {} => ~validation.ok

\* two v0.8 messages among four lines validate with messageCount 2
C6_Witness ==
    /\ Validated /\ validation.ok /\ validation.version = "v0.8"
    /\ validation.messageCount = 2 /\ Len(SplitLines(jsonl)) = 4

-----------------------------------------------------------------------------
MixedVersionsMsg == "mixed A2UI v0.8 and v0.9 messages in one file"

\* the text has a well-formed v0.9 line and a well-formed v0.8 line
TextHasBothVersions(text) ==
    LET lines == SplitLines(text)
    IN  /\ \E i \in NonBlank(lines) : LineIsV09(lines[i])
        /\ \E i \in NonBlank(lines) : LineIsV08(lines[i])

(* C7: a text with a well-formed createSurface line and a well-formed v0.8 *)
(* line, in any order and with any other lines, fails validation and the   *)
(* reported list has the mixed-versions violation.                         *)
C7_MixedVersionsFail ==
    (Validated /\ TextHasBothVersions(jsonl)) =>
        /\ ~validation.ok
        /\ \E k \in DOMAIN validation.errors :
               validation.errors[k].msg = MixedVersionsMsg

\* a v0.8 line, then a blank line, then a v0.9 line, with no other violation
C7_Witness ==
    /\ Validated /\ TextHasBothVersions(jsonl)
    /\ Len(SplitLines(jsonl)) = 3 /\ NonBlankLines(jsonl) = {1, 3}
    /\ LineIsV08(SplitLines(jsonl)[1])
    /\ ReportedErrors = <<[msg |-> MixedVersionsMsg]>>

-----------------------------------------------------------------------------
\* the query resolveNodeId works on: the --node option, trimmed
Query == QueryOf(opts)

\* loadNodes returned and the query is not blank: the explicit-query path ran
ExplicitResolution == DirectoryLoaded /\ Query # <<>>

\* resolveNodeId returned id: the handler went on to node.invoke with it
ResolvedTo(id) ==
    /\ nodeId = id
    /\ \E i \in DOMAIN calls :
           calls[i].method = "node.invoke" /\ calls[i].nodeId = id

ExactIdOrIp(n, q) ==
    n.nodeId = q \/ ("remoteIp" \in DOMAIN n /\ n.remoteIp = q)

\* the match rule: exact id, exact remote address, a display name (not
\* empty) whose normal form is that of the query, or the query of 6 or more
\* code units as a prefix of the id
NodeMatches(n, q) ==
    \/ ExactIdOrIp(n, q)
    \/ /\ "displayName" \in DOMAIN n /\ n.displayName # <<>>
       /\ normalizeNodeKey(n.displayName) = normalizeNodeKey(q)
    \/ Len(q) >= 6 /\ StartsWith(n.nodeId, q)

\* the directory has unique ids
UniqueIds(ns) ==
    \A i, j \in DOMAIN ns : i # j => ns[i].nodeId # ns[j].nodeId

\* C8 as stated: a query equal to the id or remote address of a node (and
\* of no other node) resolves to that node, whatever the display names and
\* ids of the other nodes of the directory are
C8_Original ==
    (ExplicitResolution /\ UniqueIds(nodes)) =>
        \A i \in DOMAIN nodes :
            ( /\ ExactIdOrIp(nodes[i], Query)
              /\ \A j \in DOMAIN nodes \ {i} : ~ExactIdOrIp(nodes[j], Query) )
            => ResolvedTo(nodes[i].nodeId)

(* C8, amended: a non-empty query equal to a node's id or remote address   *)
(* resolves to that node whenever no other node of the directory matches   *)
(* the query (by id, remote address, normalized display name or id         *)
(* prefix); when another node matches too, the resolution fails with the   *)
(* ambiguous-node error.                                                   *)
C8_ExactMatchResolvesUnlessAmbiguous ==
    (ExplicitResolution /\ UniqueIds(nodes)) =>
        \A i \in DOMAIN nodes :
            ExactIdOrIp(nodes[i], Query) =>
                IF \A j \in DOMAIN nodes \ {i} : ~NodeMatches(nodes[j], Query)
                THEN ResolvedTo(nodes[i].nodeId)
                ELSE ErrorKind("ambiguous node") /\ ~Issued("node.invoke")

\* a remote address resolved to its node, among other nodes, one of which
\* has a display name
C8_Witness ==
    /\ ExplicitResolution /\ Query = Ip2 /\ Len(nodes) = 3
    /\ \E i \in DOMAIN nodes :
           /\ ExactIdOrIp(nodes[i], Query) /\ nodes[i].nodeId # Query
           /\ ResolvedTo(nodes[i].nodeId)
    /\ \E j \in DOMAIN nodes : Field(nodes[j], "displayName") # <<>>

-----------------------------------------------------------------------------
\* q is a proper prefix of the node's id
ProperIdPrefix(n, q) == StartsWith(n.nodeId, q) /\ Len(q) < Len(n.nodeId)

(* C9: a query of 5 code units or fewer that is a proper prefix of a       *)
(* node's id, and is no node's id, no node's remote address and, in normal *)
(* form, no node's normalized display name, matches no node: the           *)
(* resolution fails with the unknown-node error.  A query of 6 or more     *)
(* that is a prefix of one node's id, when no other node matches it,       *)
(* resolves to that node.                                                  *)
C9_PrefixNeedsSixCodeUnits ==
    ExplicitResolution =>
        /\ ( /\ Len(Query) <= 5
             /\ \E i \in DOMAIN nodes : ProperIdPrefix(nodes[i], Query)
             /\ \A i \in DOMAIN nodes :
                    /\ ~ExactIdOrIp(nodes[i], Query)
                    /\ "displayName" \in DOMAIN nodes[i] =>
                           normalizeNodeKey(nodes[i].displayName)
                               # normalizeNodeKey(Query) )
           => ErrorKind("unknown node") /\ ~Issued("node.invoke")
        /\ \A i \in DOMAIN nodes :
               ( /\ Len(Query) >= 6
                 /\ StartsWith(nodes[i].nodeId, Query)
                 /\ \A j \in DOMAIN nodes \ {i} : ~NodeMatches(nodes[j], Query) )
               => ResolvedTo(nodes[i].nodeId)

\* mac-1 is a 5-unit prefix of the id mac-123 and nothing else: unknown node
C9_Witness ==
    /\ ExplicitResolution /\ Len(Query) = 5 /\ Len(nodes) = 2
    /\ \E i \in DOMAIN nodes : ProperIdPrefix(nodes[i], Query)
    /\ ErrorKind("unknown node")

-----------------------------------------------------------------------------
\* the match rule as C10 words it: any display name of the node counts
NodeMatchesAsStated(n, q) ==
    \/ ExactIdOrIp(n, q)
    \/ /\ "displayName" \in DOMAIN n
       /\ normalizeNodeKey(n.displayName) = normalizeNodeKey(q)
    \/ Len(q) >= 6 /\ StartsWith(n.nodeId, q)

\* a node's label: display name, else remote address, else id
LabelOf(n) ==
    IF "displayName" \in DOMAIN n /\ n.displayName # <<>> THEN n.displayName
    ELSE IF "remoteIp" \in DOMAIN n /\ n.remoteIp # <<>> THEN n.remoteIp
    ELSE n.nodeId

LabelsOf(ns) == [i \in 1..Len(ns) |-> LabelOf(ns[i])]

\* the three outcomes of the explicit-query path, by the nodes the rule
\* found matching (in directory order)
OutcomeByMatchSet(matching) ==
    ExplicitResolution =>
        /\ Len(matching) = 1 <=> nodeId # <<>>
        /\ Len(matching) = 1 => ResolvedTo(matching[1].nodeId)
        /\ Len(matching) = 0 <=> ErrorKind("unknown node")
        /\ ErrorKind("unknown node") =>
               /\ outcome.err.q = Query
               /\ outcome.err.known = JoinStrings(LabelsOf(nodes), CommaSpace)
        /\ Len(matching) > 1 <=> ErrorKind("ambiguous node")
        /\ ErrorKind("ambiguous node") =>
               /\ outcome.err.q = Query
               /\ outcome.err.matches
                      = JoinStrings(LabelsOf(matching), CommaSpace)
        /\ (ErrorKind("unknown node") \/ ErrorKind("ambiguous node")) =>
               ~Issued("node.invoke")

\* C10 as stated: the match set counts a node whose normalized display name
\* equals the normalized query, an empty display name included
C10_Original ==
    OutcomeByMatchSet(SelectSeq(nodes, LAMBDA n : NodeMatchesAsStated(n, Query)))

(* C10, amended: with the match set of the nodes whose id or remote        *)
(* address equals the query, whose display name is not empty and equals    *)
(* the query in normal form, or whose id has the query of 6 or more code   *)
(* units as a prefix: the resolution returns the matching node's id iff    *)
(* the set has one element, fails with unknown node and the labels of all  *)
(* nodes iff it is empty, and fails with ambiguous node and the labels of  *)
(* the matching nodes iff it has more; no node.invoke follows a failure.   *)
C10_OutcomeByMatchSet ==
    OutcomeByMatchSet(SelectSeq(nodes, LAMBDA n : NodeMatches(n, Query)))

\* two of three nodes match: the ambiguous-node error lists their labels
C10_Witness ==
    /\ ExplicitResolution /\ Len(nodes) = 3
    /\ Len(SelectSeq(nodes, LAMBDA n : NodeMatches(n, Query))) = 2
    /\ ErrorKind("ambiguous node")

-----------------------------------------------------------------------------
\* loadNodes returned and the query is absent, empty or blank: the default
\* path ran
DefaultResolution == DirectoryLoaded /\ Query = <<>>

\* caps absent, or caps includes "canvas"
Capable(n) == "caps" \notin DOMAIN n \/ "canvas" \in n.caps

MarkedConnected(n) == "connected" \in DOMAIN n /\ n.connected = TRUE

ConnectedCapable(ns) ==
    SelectSeq(ns, LAMBDA n : Capable(n) /\ MarkedConnected(n))

\* the candidate set: the capable nodes marked connected if there is one,
\* otherwise all capable nodes
Candidates(ns) ==
    IF ConnectedCapable(ns) # <<>> THEN ConnectedCapable(ns)
    ELSE SelectSeq(ns, Capable)

\* the error of a default resolution that settled on no node
NodeRequired == ErrorKind("node required")

(* C11: a default resolution (query absent, empty or blank) with exactly   *)
(* one candidate returns that candidate's id, where the candidates are the *)
(* capable nodes marked connected if there is one and all capable nodes    *)
(* otherwise.  In particular the one node that is connected and capable is *)
(* returned whatever other nodes the directory has, and with no connected  *)
(* node the one capable node is returned.                                  *)
C11_SoleCandidateIsDefault ==
    DefaultResolution =>
        /\ Len(Candidates(nodes)) = 1 =>
               /\ ResolvedTo(Candidates(nodes)[1].nodeId)
               /\ ~NodeRequired
        /\ Len(ConnectedCapable(nodes)) = 1 =>
               ResolvedTo(ConnectedCapable(nodes)[1].nodeId)
        /\ ( /\ \A i \in DOMAIN nodes : ~MarkedConnected(nodes[i])
             /\ Len(SelectSeq(nodes, Capable)) = 1 )
           => ResolvedTo(SelectSeq(nodes, Capable)[1].nodeId)

\* one connected capable node beside a capable node that is not connected
\* and a connected node that is not capable: the first is returned
C11_Witness ==
    /\ DefaultResolution /\ Len(nodes) = 3
    /\ Len(ConnectedCapable(nodes)) = 1
    /\ \E i \in DOMAIN nodes : Capable(nodes[i]) /\ ~MarkedConnected(nodes[i])
    /\ \E i \in DOMAIN nodes : ~Capable(nodes[i]) /\ MarkedConnected(nodes[i])
    /\ ResolvedTo(ConnectedCapable(nodes)[1].nodeId)
    /\ ConnectedCapable(nodes)[1] # nodes[1]

-----------------------------------------------------------------------------
\* the tie-break: a platform that starts with "mac" whatever the case, and
\* an id that starts with "mac-"
TieBreak(n) ==
    /\ "platform" \in DOMAIN n
    /\ StartsWith(ToLowerCase(n.platform), <<"m", "a", "c">>)
    /\ StartsWith(n.nodeId, <<"m", "a", "c", "-">>)

TieBreakMatches(ns) == SelectSeq(Candidates(ns), TieBreak)

(* C12: a default resolution with two or more candidates returns a node    *)
(* only when exactly one candidate passes the tie-break (platform starting *)
(* with "mac" in any case, id starting with "mac-"), and then returns that *)
(* candidate; with no or several tie-break matches it fails with the       *)
(* node-required error, resolves to no node and issues no node.invoke.     *)
C12_TieBreakOrFail ==
    (DefaultResolution /\ Len(Candidates(nodes)) >= 2) =>
        IF Len(TieBreakMatches(nodes)) = 1
        THEN /\ ResolvedTo(TieBreakMatches(nodes)[1].nodeId)
             /\ ~NodeRequired
        ELSE /\ NodeRequired
             /\ nodeId = <<>>
             /\ ~Issued("node.invoke")

\* two connected capable nodes both pass the tie-break: the resolution
\* fails although the first of them heads the directory
C12_Witness ==
    /\ DefaultResolution
    /\ Len(Candidates(nodes)) = 2
    /\ Len(TieBreakMatches(nodes)) = 2
    /\ TieBreak(nodes[1])
    /\ NodeRequired
    /\ ~Issued("node.invoke")

-----------------------------------------------------------------------------
\* the directories on which default resolution is left with several
\* candidates and no single tie-break match
AmbiguousDirectories ==
    { d \in Directories :
        Len(Candidates(d)) >= 2 /\ Len(TieBreakMatches(d)) # 1 }

\* the errors resolveNodeId throws on them
AmbiguousDefaultErrors == { ResolveIn(d, <<>>) : d \in AmbiguousDirectories }

\* no node of the directory is capable (the empty directory included)
NoCapableNode(ns) == SelectSeq(ns, Capable) = <<>>

(* C13: a default resolution on a directory without a capable node fails   *)
(* with an error that is not the error thrown when several candidates are  *)
(* left, and issues no node.invoke.                                        *)
C13_Original ==
    (DefaultResolution /\ NoCapableNode(nodes)) =>
        /\ ErrorExit
        /\ ~Issued("node.invoke")
        /\ outcome.err \notin AmbiguousDefaultErrors

====
